---- MODULE Spec2Model ----
(***************************************************************************)
(* Model of the manifest reporting of platform-input-support (pis):        *)
(*   - StepReporter (platform_input_support/manifest/step_reporter.py):    *)
(*     add_task_report, complete, fail on a step manifest, with the        *)
(*     threading.Event abort shared by every reporter;                     *)
(*   - GO.process (platform_input_support/plugins/go.py): the GO plugin    *)
(*     step on the manifest-service step manifest;                         *)
(*   - Homologues.process (plugins/Homologues.py): the Homologues step;    *)
(*   - GoogleHelper (platform_input_support/helpers/google.py): the set-up *)
(*     of the storage helper;                                              *)
(*   - Settings.merge_model (src/pis/config/models.py).                    *)
(***************************************************************************)
EXTENDS Integers, Sequences, FiniteSets, TLC

\* ------------------------------------------------------------------ bounds

\* Number of StepReporter calls in a run of the model.
MaxCalls == 4
\* Number of resources the GO step manifest holds in a run of the model.
MaxResources == 3
\* Number of species the Homologues step manifest holds in a run of the model.
MaxSpecies == 3
\* Number of calls made on the GoogleHelper once it is constructed.
MaxStorageOps == 2

\* ------------------------------------------------------------- value sets

\* The status a step manifest has when it is created, before complete() or
\* fail(): the PENDING of the data model.
InitialStatus == "PENDING"

\* The names of the two StepReporters of the model.
StepNames == {"stepA", "stepB"}

\* Task manifests handed to add_task_report.
TaskNames == {"t1", "t2"}
TaskStatuses == {"COMPLETED", "VALIDATION_PASSED", "FAILED"}
TaskManifest == [name : TaskNames, status : TaskStatuses]

\* Arguments of fail(): the reason, and error (None, or an Exception whose
\* str() is the text held here; Exception() has the empty text).
Reasons == {"bad config"}
NoError == <<>>
Errors == {NoError, <<"boom">>, <<"">>}

\* The test (if error) of fail(): None is falsy, an Exception instance is truthy.
Truthy(error) == error # NoError

\* str(error)
Str(error) == error[1]

\* Negation of (status not in [Status.COMPLETED, Status.VALIDATION_PASSED]).
IsPassing(status) == status \in {"COMPLETED", "VALIDATION_PASSED"}

\* The backquote character of the log lines (TLA+ strings cannot hold it).
BQ == "BACKQUOTE"

\* The f-string of complete(): "task", the task's name between backquotes and
\* the value of its status, as the pieces of the string.
TaskLine(task) == <<"task ", BQ, task.name, BQ, " ", task.status>>

\* The f-string of fail(): the step's name between backquotes, then the reason.
FailLine(name, reason) == <<"step ", BQ, name, BQ, " failed: ", reason>>

\* [str(error)] when error is truthy, nothing otherwise.
ErrorLines(error) == IF Truthy(error) THEN <<<<Str(error)>>>> ELSE <<>>

\* Settings (config/models.py). A field's value is <<v>>, and <<>> for None.
SettingsFields == {"step", "config_file", "work_dir", "remote_uri", "pool", "log_level"}

\* The default of the pool field of Settings.
DefaultPool == 5

\* The defaults of the fields of Settings.
SettingsDefaults ==
    [f \in SettingsFields |->
        CASE f = "step" -> <<"">>
          [] f = "config_file" -> <<"config.yaml">>
          [] f = "work_dir" -> <<"./output">>
          [] f = "remote_uri" -> <<>>
          [] f = "pool" -> <<DefaultPool>>
          [] f = "log_level" -> <<"INFO">>]

\* The models merged into Settings, and the fields each declares.
ModelKinds == {"yaml", "cli", "env"}
ModelFields(kind) ==
    IF kind = "yaml" THEN {"work_dir", "remote_uri", "pool", "log_level"}
    ELSE SettingsFields

\* The default of a field of YamlSettings, CliSettings and EnvSettings: None,
\* but the empty string for the step of CliSettings.
ModelDefault(kind, f) == IF kind = "cli" /\ f = "step" THEN <<"">> ELSE <<>>

\* The values a configuration file, a command line and an environment give
\* to a field, in this order.
GivenValues(f) ==
    CASE f = "step" -> <<"go", "disease", "evidence">>
      [] f = "config_file" -> <<"yaml.yaml", "cli.yaml", "env.yaml">>
      [] f = "work_dir" -> <<"./yaml", "./cli", "./env">>
      [] f = "remote_uri" -> <<"gs://yaml", "gs://cli", "gs://env">>
      [] f = "pool" -> <<DefaultPool + 1, DefaultPool + 2, DefaultPool + 3>>
      [] f = "log_level" -> <<"DEBUG", "WARNING", "ERROR">>
KindIndex(kind) == CASE kind = "yaml" -> 1 [] kind = "cli" -> 2 [] kind = "env" -> 3

\* The instances of a model: fields_set is model_fields_set, the fields given
\* at construction; a field that was not given has its default; pool may
\* also be given as None.
Incoming(kind) ==
    {[kind |-> kind,
      fields_set |-> given,
      value |-> [f \in ModelFields(kind) |->
                    IF f \notin given THEN ModelDefault(kind, f)
                    ELSE IF f = "pool" /\ poolIsNone THEN <<>>
                    ELSE <<GivenValues(f)[KindIndex(kind)]>>]] :
        given \in SUBSET ModelFields(kind), poolIsNone \in BOOLEAN}

\* ------------------------------------------------------------------ state

VARIABLES
    tasks,              \* tasks[s]: StepReporter(s)._manifest.tasks
    log,                \* log[s]: StepReporter(s)._manifest.log
    status,             \* status[s]: StepReporter(s)._manifest.status
    abort,              \* the threading.Event passed to add_task_report
    calls,              \* number of StepReporter calls made
    last,               \* the most recent call and its arguments
    resources,          \* GO: manifest_step.resources
    status_completion,  \* GO: manifest_step.status_completion
    msg_completion,     \* GO: manifest_step.msg_completion
    hResources,         \* Homologues: manifest_step.resources
    hStatus,            \* Homologues: manifest_step.status_completion
    hMsg,               \* Homologues: manifest_step.msg_completion
    hReturned,          \* Homologues: what download_species returned in the last call
    gPc,                \* GoogleHelper: where the construction stands
    gExit,              \* GoogleHelper: the code of sys.exit, <<>> while running
    gCreds,             \* GoogleHelper: what auth.default() gave
    gPath,              \* GoogleHelper: config.gcp_bucket_path as __init__ read it
    gBucket,            \* GoogleHelper: what the check of the configured bucket gave
    gReturns,           \* GoogleHelper: the calls made on the helper, with their results
    settings,           \* Settings: the value of every field of the Settings object
    merged              \* Settings: the models merged into it so far, in order

reporterVars == <<tasks, log, status, abort, calls>>
goVars == <<resources, status_completion, msg_completion>>
homologuesVars == <<hResources, hStatus, hMsg, hReturned>>
googleVars == <<gPc, gExit, gCreds, gPath, gBucket, gReturns>>
settingsVars == <<settings, merged>>
vars == <<tasks, log, status, abort, calls, last,
          resources, status_completion, msg_completion,
          homologuesVars, googleVars, settingsVars>>

\* The record of a call: the operation, the step it was made on, its
\* arguments (NoTask, "" and NoError where it has none) and the status the
\* step had when the call was entered.
NoTask == [name |-> "", status |-> ""]
Call(op, s, task, reason, error, entry) ==
    [op |-> op, step |-> s, task |-> task, reason |-> reason,
     error |-> error, entry |-> entry]

\* StepReporter.__init__ for every step name; the Event starts clear; the GO
\* step manifest is registered with no resources.
Init ==
    /\ tasks = [s \in StepNames |-> <<>>]
    /\ log = [s \in StepNames |-> <<>>]
    /\ status = [s \in StepNames |-> InitialStatus]
    /\ abort = FALSE
    /\ calls = 0
    /\ last = Call("init", "", NoTask, "", NoError, "")
    /\ resources = <<>>
    /\ status_completion = InitialStatus
    /\ msg_completion = ""
    /\ hResources = <<>>
    /\ hStatus = InitialStatus
    /\ hMsg = ""
    /\ hReturned = <<>>
    /\ gPc = "init"
    /\ gExit = <<>>
    /\ gCreds = "unknown"
    /\ gPath = <<>>
    /\ gBucket = "unchecked"
    /\ gReturns = <<>>
    /\ settings = SettingsDefaults
    /\ merged = <<>>

\* ----------------------------------------------------------- StepReporter

\* Variant of complete()'s loop in which every task overwrites the status, so
\* that the last task decides.
RECURSIVE CompleteStatusLastTaskDecides(_, _)
CompleteStatusLastTaskDecides(ts, st) ==
    IF ts = <<>> THEN st
    ELSE CompleteStatusLastTaskDecides(
             Tail(ts), IF IsPassing(Head(ts).status) THEN "COMPLETED" ELSE "FAILED")

\* The effect of complete()'s loop on the status: COMPLETED, then FAILED at
\* every task that is not passing.
RECURSIVE CompleteStatus(_, _)
CompleteStatus(ts, st) ==
    IF ts = <<>> THEN st
    ELSE CompleteStatus(Tail(ts), IF IsPassing(Head(ts).status) THEN st ELSE "FAILED")

\* Variant of complete()'s loop that writes a line for the failing tasks only.
RECURSIVE CompleteLogFailuresOnly(_, _)
CompleteLogFailuresOnly(ts, lg) ==
    IF ts = <<>> THEN lg
    ELSE CompleteLogFailuresOnly(
             Tail(ts),
             IF IsPassing(Head(ts).status) THEN lg ELSE Append(lg, TaskLine(Head(ts))))

\* The effect of complete()'s loop on the log: one line per task, in order.
RECURSIVE CompleteLog(_, _)
CompleteLog(ts, lg) ==
    IF ts = <<>> THEN lg
    ELSE CompleteLog(Tail(ts), Append(lg, TaskLine(Head(ts))))

\* Variants of add_task_report.
\* abort.set() for every record, passing or not.
AddTaskReportAlwaysAborts(s, task_manifest) ==
    /\ calls < MaxCalls
    /\ tasks' = [tasks EXCEPT ![s] = Append(@, task_manifest)]
    /\ abort' = TRUE
    /\ calls' = calls + 1
    /\ last' = Call("add_task_report", s, task_manifest, "", NoError, status[s])
    /\ UNCHANGED <<log, status>>
    /\ UNCHANGED <<goVars, homologuesVars, googleVars, settingsVars>>

\* The Event follows the last record: a passing record clears it.
AddTaskReportClearsAbort(s, task_manifest) ==
    /\ calls < MaxCalls
    /\ tasks' = [tasks EXCEPT ![s] = Append(@, task_manifest)]
    /\ abort' = ~IsPassing(task_manifest.status)
    /\ calls' = calls + 1
    /\ last' = Call("add_task_report", s, task_manifest, "", NoError, status[s])
    /\ UNCHANGED <<log, status>>
    /\ UNCHANGED <<goVars, homologuesVars, googleVars, settingsVars>>

\* A record that is not passing marks the step FAILED at once.
AddTaskReportFailsStep(s, task_manifest) ==
    /\ calls < MaxCalls
    /\ tasks' = [tasks EXCEPT ![s] = Append(@, task_manifest)]
    /\ abort' = IF ~IsPassing(task_manifest.status) THEN TRUE ELSE abort
    /\ status' = [status EXCEPT ![s] =
                     IF ~IsPassing(task_manifest.status) THEN "FAILED" ELSE @]
    /\ calls' = calls + 1
    /\ last' = Call("add_task_report", s, task_manifest, "", NoError, status[s])
    /\ UNCHANGED log
    /\ UNCHANGED <<goVars, homologuesVars, googleVars, settingsVars>>

\* Every StepManifest holds the same task list (a shared mutable default).
AddTaskReportSharedList(s, task_manifest) ==
    /\ calls < MaxCalls
    /\ tasks' = [x \in StepNames |-> Append(tasks[x], task_manifest)]
    /\ abort' = IF ~IsPassing(task_manifest.status) THEN TRUE ELSE abort
    /\ calls' = calls + 1
    /\ last' = Call("add_task_report", s, task_manifest, "", NoError, status[s])
    /\ UNCHANGED <<log, status>>
    /\ UNCHANGED <<goVars, homologuesVars, googleVars, settingsVars>>

AddTaskReport(s, task_manifest) ==
    /\ calls < MaxCalls
    /\ tasks' = [tasks EXCEPT ![s] = Append(@, task_manifest)]
    /\ abort' = IF ~IsPassing(task_manifest.status) THEN TRUE ELSE abort
    /\ calls' = calls + 1
    /\ last' = Call("add_task_report", s, task_manifest, "", NoError, status[s])
    /\ UNCHANGED <<log, status>>
    /\ UNCHANGED <<goVars, homologuesVars, googleVars, settingsVars>>

Complete(s) ==
    /\ calls < MaxCalls
    /\ status' = [status EXCEPT ![s] = CompleteStatus(tasks[s], "COMPLETED")]
    /\ log' = [log EXCEPT ![s] = CompleteLog(tasks[s], @)]
    /\ calls' = calls + 1
    /\ last' = Call("complete", s, NoTask, "", NoError, status[s])
    /\ UNCHANGED <<tasks, abort>>
    /\ UNCHANGED <<goVars, homologuesVars, googleVars, settingsVars>>

\* Variant of fail() that never writes the error's text.
FailWithoutErrorLine(s, reason, error) ==
    /\ calls < MaxCalls
    /\ status' = [status EXCEPT ![s] = "FAILED"]
    /\ log' = [log EXCEPT ![s] = Append(@, FailLine(s, reason))]
    /\ calls' = calls + 1
    /\ last' = Call("fail", s, NoTask, reason, error, status[s])
    /\ UNCHANGED <<tasks, abort>>
    /\ UNCHANGED <<goVars, homologuesVars, googleVars, settingsVars>>

Fail(s, reason, error) ==
    /\ calls < MaxCalls
    /\ status' = [status EXCEPT ![s] = "FAILED"]
    /\ log' = [log EXCEPT ![s] = Append(@, FailLine(s, reason)) \o ErrorLines(error)]
    /\ calls' = calls + 1
    /\ last' = Call("fail", s, NoTask, reason, error, status[s])
    /\ UNCHANGED <<tasks, abort>>
    /\ UNCHANGED <<goVars, homologuesVars, googleVars, settingsVars>>

Next ==
    \/ \E s \in StepNames, t \in TaskManifest : AddTaskReport(s, t)
    \/ \E s \in StepNames : Complete(s)
    \/ \E s \in StepNames, r \in Reasons, e \in Errors : Fail(s, r, e)

Spec == Init /\ [][Next]_vars

\* ------------------------------------------------------------- GO.process

\* Resource manifests that Downloads.exec returns: the completion status of
\* the download, and no checksum yet.
ResourceStatuses == {"COMPLETED", "FAILED", "PENDING"}
ManifestResource == [status : ResourceStatuses, checksum : {FALSE}]

\* Sequences over S of length at most n.
SeqUpTo(S, n) == UNION {[1..k -> S] : k \in 0..n}

\* ManifestService.are_all_resources_complete: every record is COMPLETED or
\* VALIDATION_PASSED.
AreAllResourcesComplete(rs) == \A i \in DOMAIN rs : IsPassing(rs[i].status)

\* ManifestService.compute_checksums: a digest is attached to the passing
\* records whose file can be read; the other records are left as they are.
ComputeChecksums(rs, readable) ==
    [i \in DOMAIN rs |->
        IF IsPassing(rs[i].status) /\ i \in readable
        THEN [rs[i] EXCEPT !.checksum = TRUE]
        ELSE rs[i]]

\* Variant of GO.process without the completeness test: the step always ends
\* COMPLETED unless it was FAILED before.
GOProcessNoCompletenessTest(downloaded, readable) ==
    LET extended == resources \o downloaded
        summed == ComputeChecksums(extended, readable)
    IN  /\ Len(extended) <= MaxResources
        /\ readable \subseteq DOMAIN extended
        /\ resources' = summed
        /\ status_completion' = IF status_completion # "FAILED" THEN "COMPLETED"
                                ELSE status_completion
        /\ msg_completion' = IF status_completion # "FAILED"
                             THEN "The step has completed its execution"
                             ELSE msg_completion
        /\ last' = Call("GO.process", "GO", NoTask, "", NoError, status_completion)
        /\ UNCHANGED <<reporterVars, homologuesVars, googleVars, settingsVars>>

GOProcess(downloaded, readable) ==
    LET extended == resources \o downloaded
        summed == ComputeChecksums(extended, readable)
        incomplete == ~AreAllResourcesComplete(summed)
        status1 == IF incomplete THEN "FAILED" ELSE status_completion
        msg1 == IF incomplete THEN "COULD NOT retrieve all the resources"
                ELSE msg_completion
    IN  /\ Len(extended) <= MaxResources
        /\ readable \subseteq DOMAIN extended
        /\ resources' = summed
        /\ status_completion' = IF status1 # "FAILED" THEN "COMPLETED" ELSE status1
        /\ msg_completion' = IF status1 # "FAILED"
                             THEN "The step has completed its execution"
                             ELSE msg1
        /\ last' = Call("GO.process", "GO", NoTask, "", NoError, status_completion)
        /\ UNCHANGED <<reporterVars, homologuesVars, googleVars, settingsVars>>

NextGO ==
    \E downloaded \in SeqUpTo(ManifestResource, MaxResources),
       readable \in SUBSET (1..MaxResources) : GOProcess(downloaded, readable)

SpecGO == Init /\ [][NextGO]_vars

\* ------------------------------------------------------ Homologues.process

\* Entries of conf.resources.
Species == {"homo_sapiens", "mus_musculus"}

\* What download.ftp_download returns for a species: a resource manifest with
\* the outcome of the download, its staged file and no checksum.
DownloadManifest ==
    [species : Species, status : ResourceStatuses, msg : {"ftp download"},
     path : {"staging"}, checksum : {FALSE}]

\* The body of the loop of Homologues.process for one species: the manifest
\* that download_species returned gets the extracted file as its destination,
\* the message of the step and the status COMPLETED.
HomologueManifest(download_manifest) ==
    [download_manifest EXCEPT
        !.path = "prod",
        !.msg = "Homologue data",
        !.status = "COMPLETED"]

\* Homologues.process over the species of conf.resources, download_species
\* returning returned[i] for the i-th one. raisedAt = 0: no call raises and
\* the step is closed; raisedAt = k > 0: extract_fields_from_json raises at
\* the k-th species (open() fails, or an OSError other than ENOENT), so the
\* first k - 1 manifests stay in the step and nothing else is written.
HomologuesProcess(returned, readable, raisedAt) ==
    LET done == IF raisedAt = 0 THEN Len(returned) ELSE raisedAt - 1
        appended == hResources \o [i \in 1..done |-> HomologueManifest(returned[i])]
    IN  /\ Len(hResources) + Len(returned) <= MaxSpecies
        /\ raisedAt \in 0..Len(returned)
        /\ readable \subseteq DOMAIN appended
        /\ hReturned' = SubSeq(returned, 1, done)
        /\ IF raisedAt = 0
           THEN /\ hResources' = ComputeChecksums(appended, readable)
                /\ hStatus' = "COMPLETED"
                /\ hMsg' = "The step has completed its execution"
                /\ last' = Call("Homologues.process", "Homologues", NoTask, "",
                                NoError, hStatus)
           ELSE /\ hResources' = appended
                /\ UNCHANGED <<hStatus, hMsg>>
                /\ last' = Call("Homologues.process raised", "Homologues", NoTask, "",
                                <<"OSError">>, hStatus)
        /\ UNCHANGED <<reporterVars, goVars, googleVars, settingsVars>>

NextHomologues ==
    \E returned \in SeqUpTo(DownloadManifest, MaxSpecies),
       readable \in SUBSET (1..MaxSpecies),
       raisedAt \in 0..MaxSpecies : HomologuesProcess(returned, readable, raisedAt)

SpecHomologues == Init /\ [][NextHomologues]_vars

\* ------------------------------------------------------------ GoogleHelper

\* A gs url with its gs:// prefix removed, as its segments between slashes.
\* None (a setting that is missing, a url without file path) is <<>>.
None == <<>>
Urls == {<<"bucket-a">>, <<"bucket-b", "dir", "file.json">>}

\* GoogleHelper._parse_url: the bucket name is what precedes the first slash,
\* the file path what follows it, None when there is no slash.
ParseUrl(url) ==
    [bucket_name |-> url[1],
     file_path |-> IF Len(url) > 1 THEN Tail(url) ELSE None]

\* What client.get_bucket does in bucket_exists and stat: it returns the
\* bucket, or raises NotFound, or raises another GoogleCloudError.
GetBucketOutcomes == {"found", "NotFound", "GoogleCloudError"}

\* GoogleHelper.bucket_exists: True when get_bucket returns, False when it
\* raises NotFound or another GoogleCloudError (both are caught).
BucketExists(url, outcome) ==
    LET bucket_name == ParseUrl(url).bucket_name
    IN  outcome = "found"

\* GoogleHelper.stat: blob.exists() of the bucket that get_bucket returns,
\* False when get_bucket raises.
Stat(url, outcome, blob_exists) ==
    LET file_path == ParseUrl(url).file_path
    IN  IF outcome = "found" THEN blob_exists ELSE FALSE

\* sys.exit(1)
Exit(code) ==
    /\ gPc' = "exited"
    /\ gExit' = <<code>>

\* GoogleHelper.__init__, first try block and the client: auth.default()
\* returns, or raises DefaultCredentialsError and the process exits.
GoogleAuth(found) ==
    /\ gPc = "init"
    /\ IF found
       THEN /\ gCreds' = "found"
            /\ gPc' = "client"
            /\ UNCHANGED gExit
       ELSE /\ gCreds' = "missing"
            /\ Exit(1)
    /\ last' = Call("GoogleHelper.__init__ auth", "", NoTask, "", NoError, "")
    /\ UNCHANGED <<gPath, gBucket, gReturns>>
    /\ UNCHANGED <<reporterVars, goVars, homologuesVars, settingsVars>>

\* Variant of the second try block that only logs a bucket that does not
\* exist and goes on.
GoogleCheckBucketLogsOnly(path, outcome) ==
    /\ gPc = "client"
    /\ gPath' = path
    /\ IF path = None
       THEN /\ gBucket' = "unconfigured"
            /\ Exit(1)
       ELSE /\ gBucket' = outcome
            /\ gPc' = "ready"
            /\ UNCHANGED gExit
    /\ last' = Call("GoogleHelper.__init__ bucket", "", NoTask, "", NoError, "")
    /\ UNCHANGED <<gCreds, gReturns>>
    /\ UNCHANGED <<reporterVars, goVars, homologuesVars, settingsVars>>

\* GoogleHelper.__init__, second try block: the process exits when
\* config.gcp_bucket_path is None and when bucket_exists is False; the
\* construction is complete otherwise. bucket_exists raises no
\* GoogleHelperError, so the except clause of the block is never entered.
GoogleCheckBucket(path, outcome) ==
    /\ gPc = "client"
    /\ gPath' = path
    /\ IF path = None
       THEN /\ gBucket' = "unconfigured"
            /\ Exit(1)
       ELSE /\ gBucket' = outcome
            /\ IF ~BucketExists(path, outcome)
               THEN Exit(1)
               ELSE /\ gPc' = "ready"
                    /\ UNCHANGED gExit
    /\ last' = Call("GoogleHelper.__init__ bucket", "", NoTask, "", NoError, "")
    /\ UNCHANGED <<gCreds, gReturns>>
    /\ UNCHANGED <<reporterVars, goVars, homologuesVars, settingsVars>>

\* A call of google.bucket_exists or google.stat by the program: the helper
\* is the module's object google, which exists once __init__ has returned.
GoogleCall(op, url, outcome, blob_exists) ==
    /\ gPc = "ready"
    /\ Len(gReturns) < MaxStorageOps
    /\ gReturns' = Append(gReturns,
                          [op |-> op, url |-> url,
                           result |-> IF op = "bucket_exists"
                                      THEN BucketExists(url, outcome)
                                      ELSE Stat(url, outcome, blob_exists)])
    /\ last' = Call(op, "", NoTask, "", NoError, "")
    /\ UNCHANGED <<gPc, gExit, gCreds, gPath, gBucket>>
    /\ UNCHANGED <<reporterVars, goVars, homologuesVars, settingsVars>>

NextGoogle ==
    \/ \E found \in BOOLEAN : GoogleAuth(found)
    \/ \E path \in Urls \cup {None}, outcome \in GetBucketOutcomes :
          GoogleCheckBucket(path, outcome)
    \/ \E op \in {"bucket_exists", "stat"}, url \in Urls,
          outcome \in GetBucketOutcomes, blob_exists \in BOOLEAN :
          GoogleCall(op, url, outcome, blob_exists)

SpecGoogle == Init /\ [][NextGoogle]_vars

\* ---------------------------------------------------- Settings.merge_model

\* Variant of merge_model that takes every field of incoming that is not None.
MergeModelNotNone(self, incoming) ==
    [f \in SettingsFields |->
        IF f \in ModelFields(incoming.kind) /\ incoming.value[f] # <<>>
        THEN incoming.value[f]
        ELSE self[f]]

\* Settings.merge_model: every field of self that is in
\* incoming.model_fields_set takes incoming's value.
MergeModel(self, incoming) ==
    [f \in SettingsFields |->
        IF f \in incoming.fields_set THEN incoming.value[f] ELSE self[f]]

\* The merges onto the default Settings: the YAML model, then the CLI model,
\* then the environment model.
Merge(incoming, position) ==
    /\ Len(merged) = position - 1
    /\ settings' = MergeModel(settings, incoming)
    /\ merged' = Append(merged, incoming)
    /\ last' = Call("merge_model", incoming.kind, NoTask, "", NoError, "")
    /\ UNCHANGED <<reporterVars, goVars, homologuesVars, googleVars>>

NextSettings ==
    \/ \E incoming \in Incoming("yaml") : Merge(incoming, 1)
    \/ \E incoming \in Incoming("cli") : Merge(incoming, 2)
    \/ \E incoming \in Incoming("env") : Merge(incoming, 3)

SpecSettings == Init /\ [][NextSettings]_vars

\* ------------------------------------------------------------ properties

\* A log line holds the piece p.
Contains(line, p) == \E i \in DOMAIN line : line[i] = p

\* Every task of the list ts is COMPLETED or VALIDATION_PASSED.
AllPassing(ts) == \A i \in DOMAIN ts : ts[i].status \in {"COMPLETED", "VALIDATION_PASSED"}

\* C1: right after complete() on a step, the step's status is COMPLETED if
\* every task record of its task list is COMPLETED or VALIDATION_PASSED (the
\* empty list included) and FAILED otherwise.
C1_CompleteStatusIffAllPassing ==
    last.op = "complete" =>
        status[last.step] = IF AllPassing(tasks[last.step]) THEN "COMPLETED" ELSE "FAILED"

\* C1 witness: complete() gave FAILED for a list of two records of which one
\* is passing and one is not.
C1_Witness ==
    /\ last.op = "complete"
    /\ Len(tasks[last.step]) = 2
    /\ \E i, j \in DOMAIN tasks[last.step] :
          /\ IsPassing(tasks[last.step][i].status)
          /\ ~IsPassing(tasks[last.step][j].status)
    /\ status[last.step] = "FAILED"

\* C2: add_task_report(record, abort) appends exactly record at the end of
\* the step's task list, earlier entries and their order unchanged; a record
\* that is not passing sets the abort flag, a passing record leaves the flag
\* as it was.
C2_AddAppendsAndSetsAbort ==
    [][last'.op = "add_task_report" =>
          LET s == last'.step
              r == last'.task
          IN  /\ Len(tasks'[s]) = Len(tasks[s]) + 1
              /\ \A i \in DOMAIN tasks[s] : tasks'[s][i] = tasks[s][i]
              /\ tasks'[s][Len(tasks[s]) + 1] = r
              /\ r.status \notin {"COMPLETED", "VALIDATION_PASSED"} => abort'
              /\ r.status \in {"COMPLETED", "VALIDATION_PASSED"} => abort' = abort]_vars

\* C2 witness: a passing record was appended behind an earlier record and the
\* abort flag is clear.
C2_Witness ==
    /\ last.op = "add_task_report"
    /\ IsPassing(last.task.status)
    /\ Len(tasks[last.step]) = 2
    /\ tasks[last.step][1] # tasks[last.step][2]
    /\ ~abort

\* C3 (as claimed): once a step's status is COMPLETED or FAILED, no later
\* StepReporter operation changes it.
C3_TerminalStatusFrozen ==
    [][\A s \in StepNames :
          status[s] \in {"COMPLETED", "FAILED"} => status'[s] = status[s]]_vars

\* C4 (as claimed): a second complete() right after a complete() on the same
\* step leaves the step's log and status as the first call left them.
C4_CompleteTwiceSameLog ==
    [][(/\ last.op = "complete"
        /\ last'.op = "complete"
        /\ last'.step = last.step
        /\ calls' = calls + 1)
       => /\ log'[last.step] = log[last.step]
          /\ status'[last.step] = status[last.step]]_vars

\* C5: the abort flag is monotonic: no step of any StepReporter clears it.
C5_AbortMonotonic == [][abort => abort']_vars

\* C5 witness: the flag is set and the last call was an add_task_report of a
\* passing record.
C5_Witness ==
    /\ abort
    /\ last.op = "add_task_report"
    /\ IsPassing(last.task.status)

\* C6: fail(reason, error) sets the step status to FAILED whatever the task
\* records, appends one log line that contains reason, appends one further
\* line with the error's text exactly when an error is given, and leaves the
\* task list unchanged.
C6_FailForcesFailedAndLogs ==
    [][last'.op = "fail" =>
          LET s == last'.step
              n == Len(log[s])
              given == last'.error # <<>>
          IN  /\ status'[s] = "FAILED"
              /\ tasks' = tasks
              /\ Len(log'[s]) = n + 1 + (IF given THEN 1 ELSE 0)
              /\ \A i \in 1..n : log'[s][i] = log[s][i]
              /\ Contains(log'[s][n + 1], last'.reason)
              /\ given => log'[s][n + 2] = last'.error]_vars

\* C6 witness: fail() with an error on a step whose records are all passing
\* and that complete() had made COMPLETED.
C6_Witness ==
    /\ last.op = "fail"
    /\ last.error # <<>>
    /\ last.entry = "COMPLETED"
    /\ tasks[last.step] # <<>>
    /\ AllPassing(tasks[last.step])
    /\ status[last.step] = "FAILED"

\* C7: after N task records were added to a fresh StepReporter (its status
\* still the initial one) and complete() is called once, the log has exactly
\* N lines, the i-th naming the i-th appended record and its status.
C7_OneLogLinePerTask ==
    (last.op = "complete" /\ last.entry = InitialStatus) =>
        LET s == last.step
        IN  /\ Len(log[s]) = Len(tasks[s])
            /\ \A i \in DOMAIN tasks[s] :
                  /\ Contains(log[s][i], tasks[s][i].name)
                  /\ Contains(log[s][i], tasks[s][i].status)

\* C7 witness: the first complete() of a step with two records of different
\* names, the first failing and the second passing.
C7_Witness ==
    /\ last.op = "complete"
    /\ last.entry = InitialStatus
    /\ Len(tasks[last.step]) = 2
    /\ tasks[last.step][1].name # tasks[last.step][2].name
    /\ ~IsPassing(tasks[last.step][1].status)
    /\ IsPassing(tasks[last.step][2].status)
    /\ Len(log[last.step]) = 2

\* C8: add_task_report leaves status and log unchanged; a step's status or
\* log changes only in a complete() or fail() on that step.
C8_AddLeavesStatusAndLog ==
    [][/\ last'.op = "add_task_report" => (status' = status /\ log' = log)
       /\ \A s \in StepNames :
             (status'[s] # status[s] \/ log'[s] # log[s])
                 => (last'.op \in {"complete", "fail"} /\ last'.step = s)]_vars

\* C8 witness: a failing record was added to a step that is COMPLETED, and
\* the step is still COMPLETED.
C8_Witness ==
    /\ last.op = "add_task_report"
    /\ ~IsPassing(last.task.status)
    /\ status[last.step] = "COMPLETED"
    /\ abort

\* C9: a call on one StepReporter leaves the task list, log and status of
\* every other StepReporter unchanged.
C9_CrossStepIsolation ==
    [][\A s \in StepNames :
          last'.step # s =>
              /\ tasks'[s] = tasks[s]
              /\ log'[s] = log[s]
              /\ status'[s] = status[s]]_vars

\* C9 witness: stepB is COMPLETED with its one passing record and log line
\* while stepA, called last, holds a failing record, is FAILED and set abort.
C9_Witness ==
    /\ last.step = "stepA"
    /\ status["stepA"] = "FAILED"
    /\ \E i \in DOMAIN tasks["stepA"] : ~IsPassing(tasks["stepA"][i].status)
    /\ abort
    /\ status["stepB"] = "COMPLETED"
    /\ Len(tasks["stepB"]) = 1
    /\ Len(log["stepB"]) = 1

\* C10: when GO.process returns for a step that was not FAILED at entry, the
\* step is FAILED if some resource is not COMPLETED / VALIDATION_PASSED and
\* COMPLETED otherwise.
C10_GOStatusTruthful ==
    (last.op = "GO.process" /\ last.entry # "FAILED") =>
        status_completion = IF AllPassing(resources) THEN "COMPLETED" ELSE "FAILED"

\* C10 witness: GO.process entered with the step COMPLETED and returned with
\* it FAILED, a resource of the later download not being complete.
C10_Witness ==
    /\ last.op = "GO.process"
    /\ last.entry = "COMPLETED"
    /\ status_completion = "FAILED"
    /\ \E i \in DOMAIN resources : resources[i].checksum

\* C11 (as claimed): when Homologues.process returns, every record it added
\* has the status that the download worker returned for its species, and the
\* step is COMPLETED only if the worker returned every record as passing.
C11_HomologuesStatusWriteOnce ==
    last.op = "Homologues.process" =>
        LET n == Len(hResources) - Len(hReturned)
        IN  /\ \A i \in DOMAIN hReturned :
                  hResources[n + i].status = hReturned[i].status
            /\ hStatus = "COMPLETED" => AllPassing(hReturned)

\* C12: the construction of GoogleHelper ends in an exit with a non-zero code,
\* before any call on the helper, when the default credentials are missing,
\* when gcp_bucket_path is not configured and when the configured bucket does
\* not exist (the bucket check raises no GoogleHelperError in the code); the
\* helper is constructed, and called, only with the credentials found and the
\* bucket existing.
C12_GoogleSetupFailuresExit ==
    /\ gPc = "exited" => (Len(gExit) = 1 /\ gExit[1] # 0 /\ gReturns = <<>>)
    /\ gCreds = "missing" => gPc = "exited"
    /\ gBucket \in {"unconfigured", "NotFound", "GoogleCloudError"} => gPc = "exited"
    /\ gPc = "ready" =>
          (gCreds = "found" /\ gPath # <<>> /\ gBucket = "found" /\ gExit = <<>>)
    /\ gReturns # <<>> => gPc = "ready"

\* C12 witness: the credentials were found, the configured bucket was not,
\* and the process has exited.
C12_Witness ==
    /\ gCreds = "found"
    /\ gPath # <<>>
    /\ gBucket = "NotFound"
    /\ gPc = "exited"
    /\ gExit = <<1>>

\* The value of field f given by the last of the models ms that has f in its
\* fields_set, and the default of Settings when none has.
LastGiven(ms, f) ==
    LET given == {i \in DOMAIN ms : f \in ms[i].fields_set}
    IN  IF given = {} THEN SettingsDefaults[f]
        ELSE ms[CHOOSE i \in given : \A j \in given : j <= i].value[f]

\* C13: after the merges made so far (YAML, then CLI, then environment) every
\* field of Settings holds the value of the last merged model that had the
\* field explicitly set, and its default (pool = 5) when no model had.
C13_MergeTakesExplicitlySetFields ==
    \A f \in SettingsFields : settings[f] = LastGiven(merged, f)

\* C13 witness: the three models are merged; pool was set by YAML and CLI and
\* not by the environment, and holds the CLI's value; remote_uri was set by
\* the environment alone; log_level was set by none and is INFO; step was not
\* set on the command line and kept the value of Settings.
C13_Witness ==
    /\ Len(merged) = 3
    /\ "pool" \in merged[1].fields_set
    /\ "pool" \in merged[2].fields_set
    /\ "pool" \notin merged[3].fields_set
    /\ settings["pool"] = merged[2].value["pool"]
    /\ settings["pool"] # <<>>
    /\ "remote_uri" \in merged[3].fields_set \ merged[2].fields_set
    /\ settings["remote_uri"] = <<"gs://env">>
    /\ \A i \in 1..3 : "log_level" \notin merged[i].fields_set
    /\ settings["log_level"] = <<"INFO">>
    /\ "step" \notin merged[2].fields_set \cup merged[3].fields_set
    /\ settings["step"] = <<"">>

====
